---- MODULE Spec2Model ----
(***************************************************************************)
(* Model of the content pipeline of WordPress Publicator:                  *)
(*   html_cleaner.py  HTMLCleaner.clean_html                               *)
(*   image_api.py     ContentSanitizer, ImageProcessor                     *)
(*                                                                         *)
(* Markup is a sequence of tokens.  A token is a record                    *)
(*   [k, name, attrs]   k \in {"text","ws","open","close"}                 *)
(* "text"  one run of character data without whitespace (name is the run): *)
(*         a \w+ run, that is a word, or a run without a word character;   *)
(* "ws"    one whitespace character (name "sp" or "nl");                   *)
(* "open"  a start tag <name attrs>, attrs a set of <<attribute, value>>;  *)
(* "close" an end tag </name>.                                             *)
(***************************************************************************)
EXTENDS Integers, Sequences, FiniteSets, TLC

VARIABLES
    pc,                 \* position of the running call
    content,            \* the markup handed to the call
    words_per_section,  \* words_per_section / words_per_image argument
    sections,           \* list returned by split_content_by_words
    cleaned_html,       \* value returned by HTMLCleaner.clean_html
    sanitized_content,  \* value returned by ContentSanitizer.sanitize_content
    wordpress_api,      \* ImageProcessor.wordpress_api is set (an uploader is configured)
    used_image_ids,     \* ImageProcessor.used_image_ids
    keywords,           \* insert_images_in_content: keywords, after the shuffle
    i,                  \* insert_images_in_content: index of the section being added
    modified_content,   \* insert_images_in_content: modified_content
    used_images,        \* insert_images_in_content: used_images
    final_content,      \* markup returned by insert_images_in_content
    calls,              \* calls made to the image provider and the uploader, in order
    boundary_log,       \* per boundary queried: the candidates, the selected id, embedded or not
    max_keywords,       \* extract_keywords_from_content: max_keywords argument
    processors,         \* the ImageProcessor objects created: processors[p] is used_image_ids of object p
    threads,            \* the post-creation threads started, in order of their start
    buttons_enabled,    \* publish_btn and draft_btn are in state 'normal'
    connection_verified,\* WordPressPublicator.connection_verified
    verifying,          \* the verification thread: "idle", "started", "running", or the
                        \* result it queued for the main loop ("ok", "failed")
    wp_api,             \* WordPressPublicator.wp_api: "none", or what is known of the
                        \* WordPressAPI object: "untested", "ok", "failed"
    api_use             \* history: the objects the threads read from self.wp_api

run_vars == <<wordpress_api, used_image_ids, keywords, i, modified_content,
              used_images, final_content, calls, boundary_log>>

vars == <<pc, content, words_per_section, sections, cleaned_html, sanitized_content,
          wordpress_api, used_image_ids, keywords, i, modified_content,
          used_images, final_content, calls, boundary_log,
          max_keywords, processors, threads, buttons_enabled,
          connection_verified, verifying, wp_api, api_use>>

\* the state of the application window and its threads
app_vars == <<processors, threads, buttons_enabled, connection_verified, verifying,
              wp_api, api_use>>

\* the window as it is built: no post-creation thread was started, no
\* ImageProcessor was created, the two buttons are disabled, wp_api is None
WindowBuilt ==
    /\ processors = <<>>
    /\ threads = <<>>
    /\ buttons_enabled = FALSE
    /\ connection_verified = FALSE
    /\ verifying = "idle"
    /\ wp_api = "none"

\* the window as it is built, no history kept
AppIdle ==
    /\ WindowBuilt
    /\ api_use = [on |-> FALSE, threads |-> <<>>]

----------------------------------------------------------------------------
(* Bounds *)

MaxLen == 5     \* longest markup, in tokens, handed to the splitter
MaxWords == 3   \* largest words_per_section tried
MaxSanLen == 4  \* longest markup, in tokens, handed to the sanitizers
MaxImageId == 5 \* image ids the provider knows: 1..MaxImageId
MaxTextLen == 6 \* longest character data, in tokens, handed to the sanitizers
MaxKwLen == 5   \* longest markup, in tokens, handed to extract_keywords_from_content
MaxKwArg == 2   \* largest max_keywords tried
MaxThreads == 2 \* post-creation threads started
MaxSelections == 1  \* boundaries with an image in the run of one thread
MaxParas == 3   \* most paragraphs of a markup built from paragraphs
MaxParaWords == 3   \* most words of one such paragraph
MaxPosts == 1   \* post-creation threads started where the history of wp_api is kept

\* max_keywords=6, the argument insert_images_in_content passes
MaxKeywords == 6

----------------------------------------------------------------------------
(* Tokens *)

Tok(k, name, attrs) == [k |-> k, name |-> name, attrs |-> attrs]

Word(w) == Tok("text", w, {})
SP      == Tok("ws", "sp", {})
NL      == Tok("ws", "nl", {})
POpen   == Tok("open", "p", {})
PClose  == Tok("close", "p", {})
Dots    == Tok("text", "...", {})   \* the characters ... : no word character

IsWs(t) == t.k = "ws"

Max(S) == CHOOSE x \in S : \A y \in S : y <= x
Min(S) == CHOOSE x \in S : \A y \in S : x <= y

\* str.strip(): drop the leading and the trailing whitespace
Strip(s) ==
    LET keep == {j \in 1..Len(s) : ~IsWs(s[j])}
    IN  IF keep = {} THEN <<>> ELSE SubSeq(s, Min(keep), Max(keep))

----------------------------------------------------------------------------
(* ImageProcessor.split_content_by_words *)

\* One match of (\n\s*\n|</p>\s*<p>|</p>|<p>) starting at s[j]: the index of
\* its last token, 0 when the pattern does not match at j.
MatchEnd(s, j) ==
    IF s[j] = NL
    THEN LET ends == {e \in (j+1)..Len(s) :
                        s[e] = NL /\ \A m \in (j+1)..(e-1) : IsWs(s[m])}
         IN  IF ends = {} THEN 0 ELSE Max(ends)
    ELSE IF s[j] = PClose
    THEN LET rest == {e \in (j+1)..Len(s) : ~IsWs(s[e])}
         IN  IF rest # {} /\ s[Min(rest)] = POpen THEN Min(rest) ELSE j
    ELSE IF s[j] = POpen THEN j
    ELSE 0

\* re.split with one capturing group: text, separator, text, ..., text
RECURSIVE ReSplit(_, _, _, _)
ReSplit(s, j, start, acc) ==
    IF j > Len(s)
    THEN Append(acc, SubSeq(s, start, Len(s)))
    ELSE LET e == MatchEnd(s, j)
         IN  IF e = 0
             THEN ReSplit(s, j + 1, start, acc)
             ELSE ReSplit(s, e + 1, e + 1,
                          acc \o <<SubSeq(s, start, j - 1), SubSeq(s, j, e)>>)

re_split(s) == ReSplit(s, 1, 1, <<>>)

\* "Skip empty paragraphs or HTML tags" (the condition of the first if)
IsMarker(paragraph) ==
    LET t == Strip(paragraph)
    IN  \/ t = <<>>
        \/ t = <<PClose>>
        \/ t = <<POpen>>
        \/ Len(t) >= 1 /\ t[1] = PClose /\ MatchEnd(t, 1) > 1

\* Words of one token for \b\w+\b: a text token is one word (none when it
\* holds no word character), whitespace none, a tag its name plus one name
\* and one value per attribute.
WordsOfTok(t) ==
    IF t = Dots THEN 0
    ELSE IF t.k = "text" THEN 1
    ELSE IF t.k = "ws" THEN 0
    ELSE 1 + 2 * Cardinality(t.attrs)

RECURSIVE CountWords(_)
CountWords(s) == IF s = <<>> THEN 0 ELSE WordsOfTok(Head(s)) + CountWords(Tail(s))

\* "If adding this paragraph would exceed the word limit"
ExceedsLimit(current_word_count, paragraph_words, wps) ==
    current_word_count > 0 /\ current_word_count + paragraph_words > wps

SplitState0 == [sections |-> <<>>, current_section |-> <<>>, current_word_count |-> 0]

\* Variant of SplitStep that starts the new section empty instead of with the
\* paragraph that did not fit.
SplitStep_drop(st, paragraph, wps) ==
    IF IsMarker(paragraph)
    THEN [st EXCEPT !.current_section = @ \o paragraph]
    ELSE LET paragraph_words == CountWords(paragraph)
         IN  IF ExceedsLimit(st.current_word_count, paragraph_words, wps)
             THEN [sections |-> Append(st.sections, Strip(st.current_section)),
                   current_section |-> <<>>,
                   current_word_count |-> 0]
             ELSE [sections |-> st.sections,
                   current_section |-> st.current_section \o paragraph,
                   current_word_count |-> st.current_word_count + paragraph_words]

\* Variant of SplitStep that cuts a paragraph longer than the limit after its
\* first token.
SplitStep_cut(st, paragraph, wps) ==
    IF IsMarker(paragraph)
    THEN [st EXCEPT !.current_section = @ \o paragraph]
    ELSE LET paragraph_words == CountWords(paragraph)
         IN  IF paragraph_words > wps /\ Len(paragraph) > 1
             THEN [sections |-> Append(st.sections,
                                       Strip(st.current_section \o <<Head(paragraph)>>)),
                   current_section |-> Tail(paragraph),
                   current_word_count |-> paragraph_words - WordsOfTok(Head(paragraph))]
             ELSE [sections |-> st.sections,
                   current_section |-> st.current_section \o paragraph,
                   current_word_count |-> st.current_word_count + paragraph_words]

\* One iteration of the for loop over paragraphs
SplitStep(st, paragraph, wps) ==
    IF IsMarker(paragraph)
    THEN [st EXCEPT !.current_section = @ \o paragraph]
    ELSE LET paragraph_words == CountWords(paragraph)
         IN  IF ExceedsLimit(st.current_word_count, paragraph_words, wps)
             THEN [sections |-> Append(st.sections, Strip(st.current_section)),
                   current_section |-> paragraph,
                   current_word_count |-> paragraph_words]
             ELSE [sections |-> st.sections,
                   current_section |-> st.current_section \o paragraph,
                   current_word_count |-> st.current_word_count + paragraph_words]

RECURSIVE SplitLoop(_, _, _, _)
SplitLoop(paragraphs, n, st, wps) ==
    IF n > Len(paragraphs) THEN st
    ELSE SplitLoop(paragraphs, n + 1, SplitStep(st, paragraphs[n], wps), wps)

split_content_by_words(c, wps) ==
    LET st == SplitLoop(re_split(c), 1, SplitState0, wps)
    IN  IF Strip(st.current_section) # <<>>
        THEN Append(st.sections, Strip(st.current_section))
        ELSE st.sections

----------------------------------------------------------------------------
(* The parse tree of BeautifulSoup(markup, 'html.parser') and str(soup)    *)
(* A tree is written as the token sequence str(soup) prints: every element *)
(* is its start tag, its children, its end tag; a void element is its      *)
(* start tag alone.                                                         *)

VoidTags == {"img", "br", "hr"}      \* elements html.parser closes at once
CDataTags == {"script", "style"}     \* elements whose content is raw text
RootName == "[document]"             \* BeautifulSoup.ROOT_TAG_NAME

\* the closing tags of the open elements, innermost (last of the stack) first
RECURSIVE CloseAll(_)
CloseAll(stack) ==
    IF stack = <<>> THEN <<>>
    ELSE <<Tok("close", stack[Len(stack)], {})>> \o CloseAll(SubSeq(stack, 1, Len(stack) - 1))

\* Tree building: an end tag of an element that is not open is dropped, an
\* end tag closes every element opened inside its own, the end of input
\* closes what is still open, markup inside script/style is text.
RECURSIVE ParseRec(_, _, _, _)
ParseRec(toks, n, stack, out) ==
    IF n > Len(toks) THEN out \o CloseAll(stack)
    ELSE
      LET t == toks[n]
          top == IF stack = <<>> THEN RootName ELSE stack[Len(stack)]
          open == {m \in 1..Len(stack) : stack[m] = t.name}
      IN  IF top \in CDataTags /\ ~(t.k = "close" /\ t.name = top)
          THEN ParseRec(toks, n + 1, stack,
                        Append(out, IF t.k \in {"open", "close"}
                                    THEN Tok("text", t.name, {}) ELSE t))
          ELSE IF t.k \in {"text", "ws"}
          THEN ParseRec(toks, n + 1, stack, Append(out, t))
          ELSE IF t.k = "open"
          THEN IF t.name \in VoidTags
               THEN ParseRec(toks, n + 1, stack, Append(out, t))
               ELSE ParseRec(toks, n + 1, Append(stack, t.name), Append(out, t))
          ELSE IF t.name \in VoidTags \/ open = {}
          THEN ParseRec(toks, n + 1, stack, out)
          ELSE ParseRec(toks, n + 1, SubSeq(stack, 1, Max(open) - 1),
                        out \o CloseAll(SubSeq(stack, Max(open), Len(stack))))

Parse(toks) == ParseRec(toks, 1, <<>>, <<>>)

\* nesting depth after the first n tokens of a tree
RECURSIVE Depth(_, _)
Depth(s, n) ==
    IF n = 0 THEN 0
    ELSE Depth(s, n - 1) +
         (IF s[n].k = "open" /\ s[n].name \notin VoidTags THEN 1
          ELSE IF s[n].k = "close" THEN -1 ELSE 0)

\* index of the end tag of the element whose start tag is s[n]
MatchClose(s, n) ==
    IF s[n].name \in VoidTags THEN n
    ELSE Min({e \in n..Len(s) : Depth(s, e) = Depth(s, n - 1)})

\* Variant of IsBlank that takes only the empty string for blank.
IsBlank_empty(s) == s = <<>>

\* not html_content or not html_content.strip()   (not content.strip())
IsBlank(s) == Strip(s) = <<>>

----------------------------------------------------------------------------
(* html_cleaner.py: HTMLCleaner *)

HC_allowed_tags ==
    {"h1", "h2", "h3", "h4", "h5", "h6", "p", "br", "hr",
     "strong", "b", "em", "i", "u", "ul", "ol", "li", "a", "img",
     "blockquote", "pre", "code",
     "table", "thead", "tbody", "tr", "th", "td", "div", "span"}

HC_allowed_attributes(tag) ==
    CASE tag = "a"          -> {"href", "title"}
      [] tag = "img"        -> {"src", "alt", "title", "width", "height"}
      [] tag = "blockquote" -> {"cite"}
      [] OTHER              -> {}

HC_forbidden_attributes ==
    {"style", "class", "id", "onclick", "onload", "onerror",
     "onmouseover", "onmouseout", "onfocus", "onblur"}

\* attribute names of the vocabulary for which name.startswith('data-')
DataAttrs == {"data-x"}

\* HTMLCleaner._clean_attributes
HC_clean_attributes(t) ==
    [t EXCEPT !.attrs = {a \in @ :
        ~(\/ a[1] \in HC_forbidden_attributes
          \/ a[1] \in DataAttrs
          \/ a[1] \notin HC_allowed_attributes(t.name))}]

\* HTMLCleaner._clean_element on an element that has a parent (el is the
\* element's tokens).  A tag that is not allowed is unwrapped and the call
\* returns: the children it leaves in the parent are not visited, because
\* the parent iterates over list(element.children) taken before the unwrap.
RECURSIVE HC_clean_element(_)
RECURSIVE HC_clean_children(_)
HC_clean_element(el) ==
    IF el[1].name \notin HC_allowed_tags
    THEN SubSeq(el, 2, Len(el) - 1)
    ELSE IF Len(el) = 1
    THEN <<HC_clean_attributes(el[1])>>
    ELSE <<HC_clean_attributes(el[1])>>
            \o HC_clean_children(SubSeq(el, 2, Len(el) - 1))
            \o <<el[Len(el)]>>

\* the loop "for child in list(element.children)" over the children f
HC_clean_children(f) ==
    IF f = <<>> THEN <<>>
    ELSE IF Head(f).k # "open"
    THEN <<Head(f)>> \o HC_clean_children(Tail(f))
    ELSE LET e == MatchClose(f, 1)
         IN  HC_clean_element(SubSeq(f, 1, e))
                \o HC_clean_children(SubSeq(f, e + 1, Len(f)))

\* HTMLCleaner._clean_element(soup): the BeautifulSoup object is named
\* "[document]", which is not an allowed tag; unwrap() raises ValueError on
\* an element without parent, extract() of it changes nothing, and the call
\* returns before the children are visited.
HC_clean_root(doc) ==
    IF RootName \notin HC_allowed_tags THEN doc ELSE HC_clean_children(doc)

\* Character data that reads like an attribute.  The parser and str(soup)
\* leave the quotes of character data as they are.
StyleText == Tok("text", "style=v", {})     \* the characters style="v"
StyleHead == Tok("text", "sty", {})         \* the characters sty
StyleTail == Tok("text", "le=v", {})        \* the characters le="v"

\* re.sub(r'\s+style=["\'][^"\'>]*["\']', '', html) on character data: one
\* pass from the left; a whitespace run directly followed by the characters
\* style="v" is removed with them, and the scan goes on after the match.
RECURSIVE HC_sub_style_text(_)
HC_sub_style_text(s) ==
    IF s = <<>> THEN <<>>
    ELSE IF ~IsWs(Head(s)) THEN <<Head(s)>> \o HC_sub_style_text(Tail(s))
    ELSE LET rest == {e \in 1..Len(s) : ~IsWs(s[e])}
             nxt  == IF rest = {} THEN Len(s) + 1 ELSE Min(rest)
         IN  IF nxt <= Len(s) /\ s[nxt] = StyleText
             THEN HC_sub_style_text(SubSeq(s, nxt + 1, Len(s)))
             ELSE IF nxt < Len(s) /\ s[nxt] = StyleHead /\ s[nxt + 1] = StyleTail
             THEN HC_sub_style_text(SubSeq(s, nxt + 2, Len(s)))
             ELSE SubSeq(s, 1, nxt - 1) \o HC_sub_style_text(SubSeq(s, nxt, Len(s)))

\* HTMLCleaner._remove_data_attributes_regex on the printed tree (attribute
\* values hold no quote and no '>'): the attributes of the tags, then the
\* character data
HC_remove_data_attributes_regex(s) ==
    HC_sub_style_text(
        [n \in 1..Len(s) |->
            IF s[n].k = "open"
            THEN [s[n] EXCEPT !.attrs = {a \in @ :
                     a[1] \notin DataAttrs \cup {"style", "class", "id"}}]
            ELSE s[n]])

IsTag(t) == t.k \in {"open", "close"}

\* HTMLCleaner._normalize_whitespace: whitespace between two tags is removed,
\* every other whitespace run becomes one blank; no whitespace stands before
\* the '>' of a printed tag.
RECURSIVE HC_normalize_whitespace(_)
HC_normalize_whitespace(s) ==
    IF s = <<>> THEN <<>>
    ELSE IF ~IsWs(Head(s)) THEN <<Head(s)>> \o HC_normalize_whitespace(Tail(s))
    ELSE LET rest == {e \in 1..Len(s) : ~IsWs(s[e])}
             nxt  == IF rest = {} THEN Len(s) + 1 ELSE Min(rest)
         IN  <<SP>> \o HC_normalize_whitespace(SubSeq(s, nxt, Len(s)))

\* re.sub(r'>\s+<', '><', html) applied first
RECURSIVE HC_drop_between_tags(_, _)
HC_drop_between_tags(s, prev_is_tag) ==
    IF s = <<>> THEN <<>>
    ELSE IF IsWs(Head(s)) /\ prev_is_tag
    THEN LET rest == {e \in 1..Len(s) : ~IsWs(s[e])}
         IN  IF rest # {} /\ IsTag(s[Min(rest)])
             THEN HC_drop_between_tags(SubSeq(s, Min(rest), Len(s)), FALSE)
             ELSE <<Head(s)>> \o HC_drop_between_tags(Tail(s), FALSE)
    ELSE <<Head(s)>> \o HC_drop_between_tags(Tail(s), IsTag(Head(s)))

\* HTMLCleaner.clean_html
clean_html(html_content) ==
    IF IsBlank(html_content) THEN <<>>
    ELSE Strip(HC_normalize_whitespace(HC_drop_between_tags(
            HC_remove_data_attributes_regex(HC_clean_root(Parse(html_content))),
            FALSE)))

----------------------------------------------------------------------------
(* image_api.py: ContentSanitizer *)

CS_allowed_tags ==
    {"h1", "h2", "h3", "h4", "h5", "h6", "p", "br", "hr",
     "strong", "b", "em", "i", "u", "strike", "del",
     "blockquote", "cite", "q", "ul", "ol", "li", "a", "img",
     "table", "thead", "tbody", "tr", "th", "td", "div", "span",
     "code", "pre"}

CS_allowed_attributes(tag) ==
    CASE tag = "a"          -> {"href", "title", "target"}
      [] tag = "img"        -> {"src", "alt", "title"}
      [] tag = "blockquote" -> {"cite"}
      [] tag = "q"          -> {"cite"}
      [] OTHER              -> {}

\* ContentSanitizer._remove_unwanted_tags: find_all() lists every element
\* of the tree before the loop starts; each one whose tag is not allowed is
\* unwrapped, which removes its start tag and its end tag.
CS_remove_unwanted_tags(doc) ==
    LET found == {n \in 1..Len(doc) : doc[n].k = "open"}
        gone  == UNION {{n, MatchClose(doc, n)} :
                          n \in {m \in found : doc[m].name \notin CS_allowed_tags}}
        kept  == SelectSeq([n \in 1..Len(doc) |-> n], LAMBDA n : n \notin gone)
    IN  [m \in 1..Len(kept) |-> doc[kept[m]]]

\* ContentSanitizer._clean_attributes
CS_clean_attributes(doc) ==
    [n \in 1..Len(doc) |->
        IF doc[n].k = "open"
        THEN [doc[n] EXCEPT !.attrs = {a \in @ :
                 ~(a[1] \notin CS_allowed_attributes(doc[n].name) \/ a[1] \in DataAttrs)}]
        ELSE doc[n]]

\* ContentSanitizer.sanitize_content
sanitize_content(html_content) ==
    IF IsBlank(html_content) THEN html_content
    ELSE CS_clean_attributes(CS_remove_unwanted_tags(Parse(html_content)))

\* re.sub(r'\n\s*\n\s*\n+', '\n\n', s): a whitespace run that starts and
\* ends with a newline and holds three or more becomes two newlines.  The
\* match is leftmost; \s* and \n+ are greedy, so it ends at the last newline
\* of the run.
RECURSIVE CS_collapse_blank_lines(_)
CS_collapse_blank_lines(s) ==
    IF s = <<>> THEN <<>>
    ELSE LET rest == {e \in 1..Len(s) : ~IsWs(s[e])}
             run  == IF rest = {} THEN Len(s) ELSE Min(rest) - 1
             nls  == {e \in 1..run : s[e] = NL}
         IN  IF Head(s) = NL /\ Cardinality(nls) >= 3
             THEN <<NL, NL>> \o CS_collapse_blank_lines(SubSeq(s, Max(nls) + 1, Len(s)))
             ELSE <<Head(s)>> \o CS_collapse_blank_lines(Tail(s))

\* re.sub(r'[ \t]+', ' ', s)
RECURSIVE CS_collapse_blanks(_)
CS_collapse_blanks(s) ==
    IF s = <<>> THEN <<>>
    ELSE IF Head(s) = SP
    THEN LET rest == {e \in 1..Len(s) : s[e] # SP}
             nxt  == IF rest = {} THEN Len(s) + 1 ELSE Min(rest)
         IN  <<SP>> \o CS_collapse_blanks(SubSeq(s, nxt, Len(s)))
    ELSE <<Head(s)>> \o CS_collapse_blanks(Tail(s))

\* Variant of clean_text_content that leaves the whitespace as it is.
clean_text_content_raw(c) == sanitize_content(c)

\* ContentSanitizer.clean_text_content
clean_text_content(c) ==
    Strip(CS_collapse_blanks(CS_collapse_blank_lines(sanitize_content(c))))

----------------------------------------------------------------------------
(* Specification SpecSan: both sanitizers applied to every markup of at    *)
(* most MaxSanLen tokens of SanAlphabet (malformed markup included).       *)

V == <<"v", 0>>     \* an attribute value

SanAlphabet ==
    { Word("x"), SP,
      Tok("open", "div", {<<"class", V>>, <<"onclick", V>>, <<"style", V>>}),
      Tok("close", "div", {}),
      Tok("open", "section", {<<"id", V>>}),
      Tok("close", "section", {}),
      Tok("open", "script", {}),
      Tok("close", "script", {}),
      Tok("open", "img", {<<"src", V>>, <<"width", V>>, <<"data-x", V>>}),
      Tok("open", "a", {<<"href", V>>, <<"target", V>>, <<"lang", V>>}),
      Tok("close", "a", {}) }

SanInputs == UNION {[1..n -> SanAlphabet] : n \in 0..MaxSanLen}

InitSan ==
    /\ pc = "san_start"
    /\ content \in SanInputs
    /\ words_per_section = 0
    /\ sections = <<>>
    /\ cleaned_html = <<>>
    /\ sanitized_content = <<>>
    /\ wordpress_api = FALSE
    /\ used_image_ids = {}
    /\ keywords = <<>>
    /\ i = 0
    /\ modified_content = <<>>
    /\ used_images = <<>>
    /\ final_content = <<>>
    /\ calls = <<>>
    /\ boundary_log = <<>>
    /\ max_keywords = MaxKeywords
    /\ AppIdle

CleanHtml ==
    /\ pc = "san_start"
    /\ cleaned_html' = clean_html(content)
    /\ pc' = "san_cleaned"
    /\ UNCHANGED <<max_keywords, app_vars, content, words_per_section, sections, sanitized_content, run_vars>>

\* soup.get_text() of the except branch of clean_html: the strings of the
\* tree.  Whether the strings inside script and style are among them
\* depends on the version of the library (with_cdata tells).
get_text(html_content, with_cdata) ==
    LET doc  == Parse(html_content)
        cdata == UNION {n..MatchClose(doc, n) :
                           n \in {m \in 1..Len(doc) :
                                     doc[m].k = "open" /\ doc[m].name \in CDataTags}}
        kept == SelectSeq([n \in 1..Len(doc) |-> n],
                          LAMBDA n : ~IsTag(doc[n]) /\ (with_cdata \/ n \notin cdata))
    IN  [m \in 1..Len(kept) |-> doc[kept[m]]]

\* html_cleaner.py lines 56, 72-75: BeautifulSoup(html_content) raises; the
\* except branch makes the same call, outside any try
CleanHtmlParseRaises ==
    /\ pc = "san_start"
    /\ ~IsBlank(content)
    /\ pc' = "san_raised"
    /\ UNCHANGED <<max_keywords, app_vars, content, words_per_section, sections, cleaned_html,
                   sanitized_content, run_vars>>

\* html_cleaner.py lines 59-76: a statement after the parse raises; the
\* except branch returns the text of the markup
CleanHtmlFallback ==
    /\ pc = "san_start"
    /\ ~IsBlank(content)
    /\ \E with_cdata \in BOOLEAN : cleaned_html' = get_text(content, with_cdata)
    /\ pc' = "san_cleaned_fallback"
    /\ UNCHANGED <<max_keywords, app_vars, content, words_per_section, sections, sanitized_content, run_vars>>

\* image_api.py lines 62-78: a statement of the try block raises; the except
\* branch returns html_content
SanitizeContentFallback ==
    /\ pc \in {"san_cleaned", "san_cleaned_fallback"}
    /\ ~IsBlank(content)
    /\ sanitized_content' = content
    /\ pc' = "san_done_fallback"
    /\ UNCHANGED <<max_keywords, app_vars, content, words_per_section, sections, cleaned_html, run_vars>>

SanitizeContent ==
    /\ pc = "san_cleaned"
    /\ sanitized_content' = sanitize_content(content)
    /\ pc' = "san_done"
    /\ UNCHANGED <<max_keywords, app_vars, content, words_per_section, sections, cleaned_html, run_vars>>

\* clean_html applied to the markup clean_html returned
CleanHtmlAgain ==
    /\ pc = "san_done"
    /\ cleaned_html' = clean_html(cleaned_html)
    /\ pc' = "san_cleaned_twice"
    /\ UNCHANGED <<max_keywords, app_vars, content, words_per_section, sections, sanitized_content, run_vars>>

\* sanitize_content applied to the markup sanitize_content returned
SanitizeContentAgain ==
    /\ pc = "san_cleaned_twice"
    /\ sanitized_content' = sanitize_content(sanitized_content)
    /\ pc' = "san_done_twice"
    /\ UNCHANGED <<max_keywords, app_vars, content, words_per_section, sections, cleaned_html, run_vars>>

\* Specification SpecSanText: the sanitizers applied to character data of at
\* most MaxTextLen tokens that reads like a style attribute
TextAlphabet == {SP, StyleText, StyleHead, StyleTail}

SanTextInputs == UNION {[1..n -> TextAlphabet] : n \in 0..MaxTextLen}

InitSanText ==
    /\ pc = "san_start"
    /\ content \in SanTextInputs
    /\ words_per_section = 0
    /\ sections = <<>>
    /\ cleaned_html = <<>>
    /\ sanitized_content = <<>>
    /\ wordpress_api = FALSE
    /\ used_image_ids = {}
    /\ keywords = <<>>
    /\ i = 0
    /\ modified_content = <<>>
    /\ used_images = <<>>
    /\ final_content = <<>>
    /\ calls = <<>>
    /\ boundary_log = <<>>
    /\ max_keywords = MaxKeywords
    /\ AppIdle

NextSan ==
    \/ CleanHtml
    \/ CleanHtmlParseRaises
    \/ CleanHtmlFallback
    \/ SanitizeContent
    \/ SanitizeContentFallback
    \/ CleanHtmlAgain
    \/ SanitizeContentAgain

SpecSan == InitSan /\ [][NextSan]_vars

SpecSanText == InitSanText /\ [][NextSan]_vars

\* the tags of a markup
TagsOf(s) == {s[n].name : n \in {m \in 1..Len(s) : IsTag(s[m])}}

----------------------------------------------------------------------------
(* Specification SpecSplit: split_content_by_words applied to every markup *)
(* of at most MaxLen tokens made of words, blanks, newlines, <p> and </p>. *)
(* The word at position j is WordNames[j], so every word is distinct.      *)

WordNames == <<"w1", "w2", "w3", "w4", "w5", "w6", "w7", "w8">>
SplitKinds == {"word", "sp", "nl", "popen", "pclose"}

KindTok(kind, j) ==
    CASE kind = "word"   -> Word(WordNames[j])
      [] kind = "sp"     -> SP
      [] kind = "nl"     -> NL
      [] kind = "popen"  -> POpen
      [] kind = "pclose" -> PClose

SplitInputs ==
    UNION { { [j \in 1..n |-> KindTok(f[j], j)] : f \in [1..n -> SplitKinds] }
            : n \in 0..MaxLen }

InitSplit ==
    /\ pc = "split_start"
    /\ content \in SplitInputs
    /\ words_per_section \in (-1)..MaxWords
    /\ sections = <<>>
    /\ cleaned_html = <<>>
    /\ sanitized_content = <<>>
    /\ wordpress_api = FALSE
    /\ used_image_ids = {}
    /\ keywords = <<>>
    /\ i = 0
    /\ modified_content = <<>>
    /\ used_images = <<>>
    /\ final_content = <<>>
    /\ calls = <<>>
    /\ boundary_log = <<>>
    /\ max_keywords = MaxKeywords
    /\ AppIdle

SplitContentByWords ==
    /\ pc = "split_start"
    /\ sections' = split_content_by_words(content, words_per_section)
    /\ pc' = "split_done"
    /\ UNCHANGED <<max_keywords, app_vars, content, words_per_section, cleaned_html, sanitized_content, run_vars>>

NextSplit == SplitContentByWords

SpecSplit == InitSplit /\ [][NextSplit]_vars

----------------------------------------------------------------------------
(* Specification SpecParas: split_content_by_words applied to every markup *)
(* of at most MaxParas paragraphs of at most MaxParaWords words each, laid *)
(* out with blank lines or as <p> elements.  A paragraph of 0 words is the *)
(* characters "...".                                                       *)

\* a paragraph of n words separated by blanks
RECURSIVE ParaText(_)
ParaText(n) ==
    IF n = 0 THEN <<Dots>>
    ELSE IF n = 1 THEN <<Word("w")>>
    ELSE ParaText(n - 1) \o <<SP, Word("w")>>

Layouts == {"blank_lines", "p_elements", "p_elements_lines"}

\* the markup of the paragraphs whose numbers of words are counts
RECURSIVE ParaDoc(_, _)
ParaDoc(counts, layout) ==
    IF counts = <<>> THEN <<>>
    ELSE LET rest == ParaDoc(Tail(counts), layout)
         IN  CASE layout = "blank_lines" ->
                    ParaText(Head(counts)) \o (IF rest = <<>> THEN <<>> ELSE <<NL, NL>> \o rest)
               [] layout = "p_elements" ->
                    <<POpen>> \o ParaText(Head(counts)) \o <<PClose>> \o rest
               [] layout = "p_elements_lines" ->
                    <<POpen>> \o ParaText(Head(counts)) \o <<PClose>>
                        \o (IF rest = <<>> THEN <<>> ELSE <<NL>> \o rest)

ParaInputs ==
    UNION { { ParaDoc(counts, layout) : counts \in [1..n -> 0..MaxParaWords] }
            : n \in 1..MaxParas, layout \in Layouts }

InitParas ==
    /\ pc = "split_start"
    /\ content \in ParaInputs
    /\ words_per_section \in (-1)..MaxWords
    /\ sections = <<>>
    /\ cleaned_html = <<>>
    /\ sanitized_content = <<>>
    /\ wordpress_api = FALSE
    /\ used_image_ids = {}
    /\ keywords = <<>>
    /\ i = 0
    /\ modified_content = <<>>
    /\ used_images = <<>>
    /\ final_content = <<>>
    /\ calls = <<>>
    /\ boundary_log = <<>>
    /\ max_keywords = MaxKeywords
    /\ AppIdle

SpecParas == InitParas /\ [][NextSplit]_vars

----------------------------------------------------------------------------
(* ImageProcessor.extract_keywords_from_content *)

\* A word of the text is written as the sequence of the tokens it is
\* spelled with: <<"alpha">> is alpha, <<"alpha", "beta">> is alphabeta.

\* str.lower() on the names of the vocabulary
Lower(name) == IF name = "Beta" THEN "beta" ELSE name

\* the names of the vocabulary that are not made of letters only
NotLetters == {"b2b"}

\* len(name) for the names of the vocabulary
NameLen(name) ==
    CASE name \in {"alpha", "gamma"} -> 5
      [] name \in {"beta", "Beta", "this", "that"} -> 4
      [] name \in {"cat", "b2b"} -> 3

RECURSIVE WordLen(_)
WordLen(w) == IF w = <<>> THEN 0 ELSE NameLen(Head(w)) + WordLen(Tail(w))

\* re.sub(r'<[^>]+>', '', content).lower(), cut at the whitespace: the tags
\* are removed, so the text before and the text after a tag are one word
RECURSIVE WordsOfText(_, _)
WordsOfText(c, word) ==
    IF c = <<>> THEN (IF word = <<>> THEN <<>> ELSE <<word>>)
    ELSE IF IsTag(Head(c)) THEN WordsOfText(Tail(c), word)
    ELSE IF IsWs(Head(c))
    THEN (IF word = <<>> THEN <<>> ELSE <<word>>) \o WordsOfText(Tail(c), <<>>)
    ELSE WordsOfText(Tail(c), Append(word, Lower(Head(c).name)))

\* re.findall(r'\b[a-zA-Z]{4,}\b', ...): the words made of four letters or
\* more and of nothing else
IsLongAlpha(w) ==
    /\ \A n \in 1..Len(w) : w[n] \notin NotLetters
    /\ WordLen(w) >= 4

stop_words ==
    {"this", "that", "with", "have", "will", "from", "they", "know",
     "want", "been", "good", "much", "some", "time", "very", "when",
     "come", "here", "just", "like", "long", "make", "many", "over",
     "such", "take", "than", "them", "well", "were", "what", "your",
     "about", "after", "again", "before", "being", "below", "between",
     "both", "during", "each", "further", "having", "into", "more",
     "most", "other", "should", "through", "under", "until", "while",
     "above", "against", "because", "doing", "down", "once", "only",
     "same", "there", "these", "those", "where", "which", "would"}

\* word in stop_words: no two names of the vocabulary spell a stop word
\* together
IsStopWord(w) == Len(w) = 1 /\ w[1] \in stop_words

IsFilteredWord(w) == IsLongAlpha(w) /\ ~IsStopWord(w)

\* filtered_words: tags stripped, words of four letters or more, no stop word
filtered_words(c) == SelectSeq(WordsOfText(c, <<>>), IsFilteredWord)

\* the keys of word_freq in insertion order
RECURSIVE FirstSeen(_, _)
FirstSeen(ws, seen) ==
    IF ws = <<>> THEN <<>>
    ELSE IF Head(ws) \in seen THEN FirstSeen(Tail(ws), seen)
    ELSE <<Head(ws)>> \o FirstSeen(Tail(ws), seen \cup {Head(ws)})

word_freq(ws, w) == Cardinality({n \in 1..Len(ws) : ws[n] = w})

\* Variant of SortByFreq that leaves the keys in the order of insertion.
SortByFreq_unsorted(keys, ws) == keys

\* sorted(word_freq.items(), key=freq, reverse=True): stable, descending
RECURSIVE SortByFreq(_, _)
SortByFreq(keys, ws) ==
    IF keys = <<>> THEN <<>>
    ELSE LET best == Min({n \in 1..Len(keys) :
                            \A m \in 1..Len(keys) :
                                word_freq(ws, keys[m]) <= word_freq(ws, keys[n])})
         IN  <<keys[best]>> \o
             SortByFreq(SubSeq(keys, 1, best - 1) \o SubSeq(keys, best + 1, Len(keys)), ws)

\* sorted_words[:maxk]: a negative maxk counts from the end of the list
extract_keywords_from_content(c, maxk) ==
    LET ws == filtered_words(c)
        sorted_words == SortByFreq(FirstSeen(ws, {}), ws)
        stop == IF maxk < 0 THEN Max({0, Len(sorted_words) + maxk})
                ELSE Min({Len(sorted_words), maxk})
    IN  SubSeq(sorted_words, 1, stop)

----------------------------------------------------------------------------
(* Specification SpecKw: extract_keywords_from_content applied to every    *)
(* markup of at most MaxKwLen tokens of KwAlphabet, with every             *)
(* max_keywords of 0..MaxKwArg.                                            *)

KwAlphabet ==
    {Word("alpha"), Word("beta"), Word("Beta"), Word("this"), Word("b2b"), SP, POpen}

KwInputs == UNION {[1..n -> KwAlphabet] : n \in 0..MaxKwLen}

InitKw ==
    /\ pc = "kw_start"
    /\ content \in KwInputs
    /\ max_keywords \in 0..MaxKwArg
    /\ words_per_section = 0
    /\ sections = <<>>
    /\ cleaned_html = <<>>
    /\ sanitized_content = <<>>
    /\ wordpress_api = FALSE
    /\ used_image_ids = {}
    /\ keywords = <<>>
    /\ i = 0
    /\ modified_content = <<>>
    /\ used_images = <<>>
    /\ final_content = <<>>
    /\ calls = <<>>
    /\ boundary_log = <<>>
    /\ AppIdle

ExtractKeywords ==
    /\ pc = "kw_start"
    /\ keywords' = extract_keywords_from_content(content, max_keywords)
    /\ pc' = "kw_done"
    /\ UNCHANGED <<max_keywords, app_vars, content, words_per_section, sections, cleaned_html,
                   sanitized_content, wordpress_api, used_image_ids, i, modified_content,
                   used_images, final_content, calls, boundary_log>>

NextKw == ExtractKeywords

SpecKw == InitKw /\ [][NextKw]_vars

----------------------------------------------------------------------------
(* ImageProcessor.select_unique_image *)

\* Variant of available_images that never filters the candidates.
available_images_all(images, used) == images

\* the candidates the random choice is made among
available_images(images, used) ==
    IF images \ used = {} THEN images ELSE images \ used

\* Variant of registry_after that never clears the registry.
registry_after_keep(images, used, selected_image) == used \cup {selected_image}

\* Variant of registry_after that forgets only the ids of the candidates
\* when all of them are used.
registry_after_partial(images, used, selected_image) ==
    (IF images \ used = {} THEN used \ images ELSE used) \cup {selected_image}

\* the registry after the selection of selected_image
registry_after(images, used, selected_image) ==
    (IF images \ used = {} THEN {} ELSE used) \cup {selected_image}

----------------------------------------------------------------------------
(* ImageProcessor.insert_images_in_content *)

FallbackKeywords ==
    <<<<"business">>, <<"technology">>, <<"professional">>, <<"modern">>,
      <<"creative">>, <<"innovation">>>>

\* the orders random.shuffle can leave a list in
Shuffles(ks) == {[n \in 1..Len(ks) |-> ks[p[n]]] : p \in Permutations(1..Len(ks))}

\* Variant of NeedsImage that also asks for an image after the last section.
NeedsImage_all(idx, n) == idx < n

\* "Add image after each section except the last one"
NeedsImage(idx, n) == idx < n - 1

\* Variant of KeywordFor that counts the images embedded so far instead of
\* the sections.
KeywordFor_images(idx, ks) == ks[(Len(used_images) % Len(ks)) + 1]

\* keywords[i % len(keywords)]
KeywordFor(idx, ks) == ks[(idx % Len(ks)) + 1]

ProviderUrl(id) == <<"provider", id>>   \* get_image_download_url(id)
HostedUrl(id)   == <<"hosted", id>>     \* media_data['source_url'] of the upload of it
AltText(id)     == <<"alt", id>>        \* image['description']

ImgTok(url, alt) == Tok("open", "img", {<<"src", url>>, <<"alt", alt>>})

\* image_html, after the newline added when modified_content does not end
\* with one
WithImage(mc, url, alt) ==
    (IF mc # <<>> /\ mc[Len(mc)] = NL THEN mc ELSE Append(mc, NL))
        \o <<NL, POpen, ImgTok(url, alt), PClose, NL>>

----------------------------------------------------------------------------
(* Specification Spec: one call of insert_images_in_content.  The image    *)
(* provider and the uploader are outside the program: every call to them   *)
(* returns any of the results their interface allows, or raises.           *)

ImageIds == 1..MaxImageId
BigPool == 1..(MaxImageId - 1)
SmallPool == {MaxImageId}
\* the non-empty candidate lists search_images returns
SearchResults == {BigPool, SmallPool}

PAttr == Tok("open", "p", {<<"class", V>>, <<"data-x", V>>})
SectionOpen == Tok("open", "section", {})
SectionClose == Tok("close", "section", {})

DocEmpty == <<>>
DocBlank == <<SP, NL, SP>>
DocOnePara == <<PAttr, Word("alpha"), SP, SP, Word("beta"), PClose>>
DocPlain == <<SP, Word("alpha"), SP, SP, Word("this"), NL, NL, NL, Word("beta"), NL>>
DocNoKeyword == <<POpen, Word("cat"), PClose, NL, POpen, Word("that"), PClose>>
DocThree ==
    <<SectionOpen, PAttr, Word("alpha"), PClose, POpen, Word("beta"), SP, Word("beta"),
      PClose, SectionClose, POpen, Word("alpha"), PClose>>
DocFive ==
    <<POpen, Word("alpha"), PClose, POpen, Word("beta"), PClose, POpen, Word("alpha"),
      PClose, POpen, Word("beta"), PClose, POpen, Word("alpha"), PClose>>

Docs == {DocEmpty, DocBlank, DocOnePara, DocPlain, DocThree}

\* the calls tried: every document of Docs with every words_per_image, with
\* and without an uploader; the document without a keyword (its fallback
\* list has 720 orders) with two values of words_per_image
Runs ==
    [content : Docs, words_per_image : (-1)..MaxWords, wordpress_api : BOOLEAN]
    \cup [content : {DocNoKeyword}, words_per_image : {1, MaxWords},
          wordpress_api : {FALSE}]

Idle ==
    /\ sections = <<>>
    /\ cleaned_html = <<>>
    /\ sanitized_content = <<>>
    /\ keywords = <<>>
    /\ i = 0
    /\ modified_content = <<>>
    /\ used_images = <<>>
    /\ final_content = <<>>
    /\ calls = <<>>
    /\ boundary_log = <<>>
    /\ max_keywords = MaxKeywords
    /\ AppIdle

Init ==
    /\ pc = "start"
    /\ \E r \in Runs :
          /\ content = r.content
          /\ words_per_section = r.words_per_image
          /\ wordpress_api = r.wordpress_api
    /\ used_image_ids \in {{}, {1}}
    /\ Idle

\* lines 500-501: empty or whitespace-only content is returned at once
BeginBlank ==
    /\ pc = "start"
    /\ IsBlank(content)
    /\ final_content' = content
    /\ used_images' = <<>>
    /\ pc' = "done"
    /\ UNCHANGED <<max_keywords, app_vars, content, words_per_section, sections, cleaned_html, sanitized_content,
                   wordpress_api, used_image_ids, keywords, i, modified_content,
                   calls, boundary_log>>

\* lines 511-513: the extracted keywords, or the fallback list
KeywordList(c) ==
    LET extracted == extract_keywords_from_content(sanitize_content(c), MaxKeywords)
    IN  IF extracted = <<>> THEN FallbackKeywords ELSE extracted

\* Variant of Prepared that keeps the registry of the earlier runs.
Prepared_keep(ks) ==
    /\ used_image_ids' = used_image_ids
    /\ sanitized_content' = sanitize_content(content)
    /\ keywords' = ks
    /\ sections' = split_content_by_words(sanitized_content', words_per_section)

\* lines 503-520: reset, sanitize, keywords, shuffle (to the order ks), split
Prepared(ks) ==
    /\ used_image_ids' = {}
    /\ sanitized_content' = sanitize_content(content)
    /\ keywords' = ks
    /\ sections' = split_content_by_words(sanitized_content', words_per_section)

\* lines 522-524: at most one section, nothing to insert
BeginSingle ==
    /\ pc = "start"
    /\ ~IsBlank(content)
    /\ \E ks \in Shuffles(KeywordList(content)) :
        /\ Prepared(ks)
        /\ Len(sections') <= 1
        /\ final_content' = clean_text_content(sanitized_content')
        /\ used_images' = <<>>
        /\ pc' = "done"
        /\ UNCHANGED <<max_keywords, app_vars, content, words_per_section, cleaned_html, wordpress_api, i,
                       modified_content, calls, boundary_log>>

\* lines 526-527: several sections, the loop starts
BeginLoop ==
    /\ pc = "start"
    /\ ~IsBlank(content)
    /\ \E ks \in Shuffles(KeywordList(content)) :
        /\ Prepared(ks)
        /\ Len(sections') > 1
        /\ modified_content' = <<>>
        /\ used_images' = <<>>
        /\ i' = 0
        /\ pc' = "loop"
        /\ UNCHANGED <<max_keywords, app_vars, content, words_per_section, cleaned_html, wordpress_api,
                       final_content, calls, boundary_log>>

\* the end of one iteration of "for i, section in enumerate(sections)"
NextSection ==
    /\ i' = i + 1
    /\ pc' = IF i + 1 = Len(sections) THEN "finish" ELSE "loop"

InLoop == pc = "loop"
AtBoundary == InLoop /\ NeedsImage(i, Len(sections))
frame == <<content, words_per_section, sections, cleaned_html, sanitized_content,
           wordpress_api, keywords>>

\* upload: what upload_media returned at the boundary, "no_uploader" when
\* none is configured, "not_called" when no URL was resolved
LogEntry(images, id, embedded, upload) ==
    [keyword |-> KeywordFor(i, keywords), images |-> images, id |-> id,
     embedded |-> embedded, upload |-> upload]

\* lines 529-534: a section that gets no image (the last one)
SectionOnly ==
    /\ InLoop
    /\ ~NeedsImage(i, Len(sections))
    /\ modified_content' = modified_content \o sections[i + 1]
    /\ NextSection
    /\ UNCHANGED <<max_keywords, app_vars, frame, final_content, used_image_ids, used_images, calls, boundary_log>>

\* line 539: search_images raises; nothing in the loop catches it
SearchRaises ==
    /\ AtBoundary
    /\ calls' = Append(calls, "search_images")
    /\ pc' = "raised"
    /\ UNCHANGED <<max_keywords, app_vars, frame, final_content, used_image_ids, used_images, i, modified_content, boundary_log>>

\* Variant of SearchEmpty that leaves the loop at the boundary without image.
SearchEmpty_abort ==
    /\ AtBoundary
    /\ modified_content' = modified_content \o sections[i + 1]
    /\ calls' = Append(calls, "search_images")
    /\ boundary_log' = Append(boundary_log, LogEntry({}, 0, FALSE, "not_called"))
    /\ i' = i + 1
    /\ pc' = "finish"
    /\ UNCHANGED <<max_keywords, app_vars, frame, final_content, used_image_ids, used_images>>

\* lines 539-541: search_images returns no candidate
SearchEmpty ==
    /\ AtBoundary
    /\ modified_content' = modified_content \o sections[i + 1]
    /\ calls' = Append(calls, "search_images")
    /\ boundary_log' = Append(boundary_log, LogEntry({}, 0, FALSE, "not_called"))
    /\ NextSection
    /\ UNCHANGED <<max_keywords, app_vars, frame, final_content, used_image_ids, used_images>>

\* lines 539-543: search_images returns images, one of them is selected
Selected(images, image) ==
    /\ AtBoundary
    /\ images \in SearchResults
    /\ image \in available_images(images, used_image_ids)
    /\ used_image_ids' = registry_after(images, used_image_ids, image)

\* line 546: get_image_download_url raises
UrlRaises ==
    \E images \in SearchResults, image \in ImageIds :
        /\ Selected(images, image)
        /\ calls' = calls \o <<"search_images", "get_image_download_url">>
        /\ pc' = "raised"
        /\ UNCHANGED <<max_keywords, app_vars, frame, final_content, used_images, i, modified_content, boundary_log>>

\* lines 546-548: get_image_download_url returns None
UrlNone ==
    \E images \in SearchResults, image \in ImageIds :
        /\ Selected(images, image)
        /\ modified_content' = modified_content \o sections[i + 1]
        /\ calls' = calls \o <<"search_images", "get_image_download_url">>
        /\ boundary_log' = Append(boundary_log, LogEntry(images, image, FALSE, "not_called"))
        /\ NextSection
        /\ UNCHANGED <<max_keywords, app_vars, frame, final_content, used_images>>

\* lines 568-575: the image paragraph is added with final_image_url
\* Variant of Embedded that leaves the usage list as it is.
Embedded_unlisted(images, image, url, upload) ==
    /\ modified_content' =
          WithImage(modified_content \o sections[i + 1], url, AltText(image))
    /\ used_images' = used_images
    /\ boundary_log' = Append(boundary_log, LogEntry(images, image, TRUE, upload))
    /\ NextSection
    /\ UNCHANGED <<max_keywords, app_vars, frame, final_content>>

Embedded(images, image, url, upload) ==
    /\ modified_content' =
          WithImage(modified_content \o sections[i + 1], url, AltText(image))
    /\ used_images' = Append(used_images, url)
    /\ boundary_log' = Append(boundary_log, LogEntry(images, image, TRUE, upload))
    /\ NextSection
    /\ UNCHANGED <<max_keywords, app_vars, frame, final_content>>

\* lines 548-553: no uploader, the provider's URL is embedded
EmbedDirect ==
    \E images \in SearchResults, image \in ImageIds :
        /\ Selected(images, image)
        /\ ~wordpress_api
        /\ calls' = calls \o <<"search_images", "get_image_download_url">>
        /\ Embedded(images, image, ProviderUrl(image), "no_uploader")

\* line 555: upload_media raises
UploadRaises ==
    \E images \in SearchResults, image \in ImageIds :
        /\ Selected(images, image)
        /\ wordpress_api
        /\ calls' = calls \o <<"search_images", "get_image_download_url", "upload_media">>
        /\ pc' = "raised"
        /\ UNCHANGED <<max_keywords, app_vars, frame, final_content, used_images, i, modified_content, boundary_log>>

\* lines 555-566: upload_media returns (success, message, media_data)
\* "failed"  success is False
\* "no_data" success with media_data None or empty
\* "no_url"  success with media_data that has no 'source_url'
\* "hosted"  success with media_data['source_url']
UploadResults == {"failed", "no_data", "no_url", "hosted"}

\* Variant of final_image_url that takes the platform's URL after every upload.
final_image_url_hosted(result, image) == HostedUrl(image)

final_image_url(result, image) ==
    IF result = "hosted" THEN HostedUrl(image) ELSE ProviderUrl(image)

EmbedAfterUpload ==
    \E images \in SearchResults, image \in ImageIds, result \in UploadResults :
        /\ Selected(images, image)
        /\ wordpress_api
        /\ calls' = calls \o <<"search_images", "get_image_download_url", "upload_media">>
        /\ Embedded(images, image, final_image_url(result, image), result)

\* lines 582-585: final clean-up and return
Return ==
    /\ pc = "finish"
    /\ final_content' = clean_text_content(modified_content)
    /\ pc' = "done"
    /\ UNCHANGED <<max_keywords, app_vars, frame, used_image_ids, used_images, i, modified_content,
                   calls, boundary_log>>

Next ==
    \/ BeginBlank
    \/ BeginSingle
    \/ BeginLoop
    \/ SectionOnly
    \/ SearchRaises
    \/ SearchEmpty
    \/ UrlRaises
    \/ UrlNone
    \/ EmbedDirect
    \/ UploadRaises
    \/ EmbedAfterUpload
    \/ Return

Spec == Init /\ [][Next]_vars

----------------------------------------------------------------------------
(* Specification SpecReuse: insert_images_in_content on a document of five *)
(* one-word paragraphs (four boundaries), without uploader, with a         *)
(* provider whose every call succeeds.                                     *)

InitReuse ==
    /\ pc = "start"
    /\ content = DocFive
    /\ words_per_section \in 1..MaxWords
    /\ wordpress_api = FALSE
    /\ used_image_ids = {}
    /\ Idle

NextReuse ==
    \/ BeginLoop
    \/ SectionOnly
    \/ EmbedDirect
    \/ Return

SpecReuse == InitReuse /\ [][NextReuse]_vars

----------------------------------------------------------------------------
(* Specification SpecCycle: insert_images_in_content on a document of six  *)
(* one-word paragraphs separated by blank lines (five boundaries when      *)
(* words_per_image is 1),                                                  *)
(* without uploader, with a provider whose every search returns the same   *)
(* candidates: two of them, or three.                                      *)

DocSix ==
    <<Word("alpha"), NL, NL, Word("beta"), NL, NL, Word("alpha"), NL, NL,
      Word("beta"), NL, NL, Word("alpha"), NL, NL, Word("beta")>>

SamePools == {1..2, 1..3}

InitCycle ==
    /\ pc = "start"
    /\ content = DocSix
    /\ words_per_section \in 1..MaxWords
    /\ wordpress_api = FALSE
    /\ used_image_ids \in {{}, {1}}
    /\ Idle

\* lines 539-575 with the candidates every search of the run returns
EmbedSame ==
    \E images \in SamePools, image \in ImageIds :
        /\ AtBoundary
        /\ boundary_log # <<>> => images = boundary_log[1].images
        /\ image \in available_images(images, used_image_ids)
        /\ used_image_ids' = registry_after(images, used_image_ids, image)
        /\ calls' = calls \o <<"search_images", "get_image_download_url">>
        /\ Embedded(images, image, ProviderUrl(image), "no_uploader")

NextCycle ==
    \/ BeginLoop
    \/ SectionOnly
    \/ EmbedSame
    \/ Return

SpecCycle == InitCycle /\ [][NextCycle]_vars

----------------------------------------------------------------------------
(* Specification SpecKeys: insert_images_in_content without uploader on a  *)
(* document of four one-word paragraphs separated by blank lines (two      *)
(* keywords, up to three boundaries) and on the document without keyword   *)
(* (the fallback list); a boundary gets no candidate, no URL, or an image. *)

DocFour ==
    <<Word("alpha"), NL, NL, Word("beta"), NL, NL, Word("alpha"), NL, NL, Word("beta")>>

InitKeys ==
    /\ pc = "start"
    /\ content \in {DocFour, DocNoKeyword}
    /\ words_per_section \in 1..MaxWords
    /\ wordpress_api = FALSE
    /\ used_image_ids = {}
    /\ Idle

NextKeys ==
    \/ BeginSingle
    \/ BeginLoop
    \/ SectionOnly
    \/ SearchEmpty
    \/ UrlNone
    \/ EmbedDirect
    \/ Return

SpecKeys == InitKeys /\ [][NextKeys]_vars

----------------------------------------------------------------------------
(* Specification SpecSelect: select_unique_image called on an              *)
(* ImageProcessor with any registry, with any candidate list (the empty    *)
(* one included), again and again.  boundary_log holds the last call:      *)
(* its candidates, the id it returned (0 for None) and the registry it     *)
(* found.                                                                  *)

InitSelect ==
    /\ pc = "select"
    /\ content = <<>>
    /\ words_per_section = 0
    /\ wordpress_api = FALSE
    /\ used_image_ids \in SUBSET ImageIds
    /\ Idle

SelectEntry(images, id) ==
    [images |-> images, id |-> id, used_before |-> used_image_ids]

\* lines 440-441: no candidate, None is returned
SelectNone ==
    /\ pc = "select"
    /\ boundary_log' = <<SelectEntry({}, 0)>>
    /\ UNCHANGED <<max_keywords, app_vars, frame, final_content, used_image_ids,
                   used_images, i, modified_content, calls, pc>>

\* lines 443-456: one of the available candidates is returned and recorded
SelectUniqueImage ==
    /\ pc = "select"
    /\ \E images \in (SUBSET ImageIds) \ {{}} :
          \E selected_image \in available_images(images, used_image_ids) :
            /\ used_image_ids' = registry_after(images, used_image_ids, selected_image)
            /\ boundary_log' = <<SelectEntry(images, selected_image)>>
    /\ UNCHANGED <<max_keywords, app_vars, frame, final_content,
                   used_images, i, modified_content, calls, pc>>

NextSelect ==
    \/ SelectNone
    \/ SelectUniqueImage

SpecSelect == InitSelect /\ [][NextSelect]_vars

----------------------------------------------------------------------------
(* Specification SpecApp: the window of main.py.  The main loop runs the   *)
(* button commands and the callbacks queued with root.after; the           *)
(* verification thread and the post-creation threads run beside it.        *)
(* A post-creation thread is a record:                                     *)
(*   pc                 where it is in _create_post_thread                 *)
(*   enable_images      what enable_images_var.get() gave                  *)
(*   image_processor    the ImageProcessor it created (0: none yet)        *)
(*   selected           the images it selected, with the candidates of each*)
(*   processed_content  what its variable processed_content holds          *)
(*   image_error        the except branch of image processing was taken    *)
(*   posted             the content it gave to create_post ("none": no call)*)
(* api_use is the history of the objects the threads read from            *)
(* self.wp_api; it is kept where api_use.on is set (SpecPost):             *)
(*   replaced  self.wp_api was assigned since the thread started           *)
(*   upload    the object given to the ImageProcessor: "none", "current"   *)
(*             (it is self.wp_api still) or "replaced"                     *)
(*   post      the object create_post was called on: whether one was yet   *)
(*             (made), what replaced and upload were then, and what was    *)
(*             known of the object (tested)                                *)

\* the state of every run variable while the window is modelled
AppRun ==
    /\ pc = "app"
    /\ content = <<>>
    /\ words_per_section = 0
    /\ wordpress_api = FALSE
    /\ used_image_ids = {}

InitApp == AppRun /\ Idle

run_frame == <<pc, content, words_per_section, sections, cleaned_html, sanitized_content,
               run_vars, max_keywords>>

NoPost == [made |-> FALSE, replaced |-> FALSE, upload |-> "none", tested |-> "none"]

\* verify_connection: the button starts the verification thread
VerifyConnection ==
    /\ verifying = "idle"
    /\ verifying' = "started"
    /\ UNCHANGED <<run_frame, processors, threads, buttons_enabled, connection_verified,
                   wp_api, api_use>>

\* _verify_connection_thread, lines 302-306: self.wp_api is a new
\* WordPressAPI; the object a running thread has read is not self.wp_api
\* any more
VerifyCreateClient ==
    /\ verifying = "started"
    /\ wp_api' = "untested"
    /\ verifying' = "running"
    /\ api_use' = [api_use EXCEPT !.threads =
                      [t \in 1..Len(api_use.threads) |->
                          IF threads[t].pc = "done" THEN api_use.threads[t]
                          ELSE [api_use.threads[t] EXCEPT
                                   !.replaced = TRUE,
                                   !.upload = IF @ = "current" THEN "replaced" ELSE @]]]
    /\ UNCHANGED <<run_frame, processors, threads, buttons_enabled, connection_verified>>

\* _verify_connection_thread, lines 308-314: test_connection returns (or
\* raises, which counts as a failure), the result is queued
VerifyConnectionThread ==
    /\ verifying = "running"
    /\ \E result \in {"ok", "failed"} :
          /\ verifying' = result
          /\ wp_api' = result
    /\ UNCHANGED <<run_frame, processors, threads, buttons_enabled, connection_verified,
                   api_use>>

\* _update_connection_result, run by the main loop
UpdateConnectionResult ==
    /\ verifying \in {"ok", "failed"}
    /\ connection_verified' = (verifying = "ok")
    /\ buttons_enabled' = (verifying = "ok")
    /\ verifying' = "idle"
    /\ UNCHANGED <<run_frame, processors, threads, wp_api, api_use>>

\* the threads started in one behaviour: fewer where the history is kept
ThreadLimit == IF api_use.on THEN MaxPosts ELSE MaxThreads

\* _create_post: a click on an enabled button starts a post-creation thread
CreatePost ==
    /\ buttons_enabled
    /\ connection_verified
    /\ Len(threads) < ThreadLimit
    /\ buttons_enabled' = FALSE
    /\ \E enable_images \in BOOLEAN :
          threads' = Append(threads, [pc |-> "clean", enable_images |-> enable_images,
                                      image_processor |-> 0, selected |-> <<>>,
                                      processed_content |-> "none",
                                      image_error |-> FALSE,
                                      posted |-> "none"])
    /\ api_use' = IF ~api_use.on THEN api_use
                  ELSE [api_use EXCEPT !.threads =
                          Append(@, [replaced |-> FALSE, upload |-> "none",
                                     post |-> NoPost])]
    /\ UNCHANGED <<run_frame, processors, connection_verified, verifying, wp_api>>

\* lines 386-394: clean_html, then the test of enable_images_var
ThreadClean(t) ==
    /\ threads[t].pc = "clean"
    /\ threads' = [threads EXCEPT ![t].pc = IF threads[t].enable_images
                                            THEN "create" ELSE "post",
                                  ![t].processed_content = "cleaned"]
    /\ UNCHANGED <<run_frame, processors, buttons_enabled, connection_verified, verifying,
                   wp_api, api_use>>

\* lines 392, 432-433: clean_html raises; the outer except queues
\* _update_post_result and create_post is not called
ThreadCleanRaises(t) ==
    /\ threads[t].pc = "clean"
    /\ threads' = [threads EXCEPT ![t].pc = "result"]
    /\ UNCHANGED <<run_frame, processors, buttons_enabled, connection_verified, verifying,
                   wp_api, api_use>>

\* line 401: wp_api_for_upload is self.wp_api when upload_to_media_var is set
UploadRead(t, upload_to_media) ==
    IF api_use.on /\ upload_to_media
    THEN [api_use EXCEPT !.threads[t].upload = "current"]
    ELSE api_use

\* Variant of ThreadCreateProcessor in which every thread takes the first
\* ImageProcessor created.
ThreadCreateProcessor_shared(t) ==
    /\ threads[t].pc = "create"
    /\ processors' = IF processors = <<>> THEN <<{}>> ELSE processors
    /\ threads' = [threads EXCEPT ![t].pc = "assemble", ![t].image_processor = 1]
    /\ \E upload_to_media \in BOOLEAN : api_use' = UploadRead(t, upload_to_media)
    /\ UNCHANGED <<run_frame, buttons_enabled, connection_verified, verifying, wp_api>>

\* lines 399-409: create_image_processor returns a new ImageProcessor, whose
\* used_image_ids is a new empty set
ThreadCreateProcessor(t) ==
    /\ threads[t].pc = "create"
    /\ processors' = Append(processors, {})
    /\ threads' = [threads EXCEPT ![t].pc = "assemble",
                                  ![t].image_processor = Len(processors) + 1]
    /\ \E upload_to_media \in BOOLEAN : api_use' = UploadRead(t, upload_to_media)
    /\ UNCHANGED <<run_frame, buttons_enabled, connection_verified, verifying, wp_api>>

\* line 412, image_api.py line 504: insert_images_in_content starts with
\* reset_used_images on the thread's ImageProcessor
ThreadReset(t) ==
    /\ threads[t].pc = "assemble"
    /\ processors' = [processors EXCEPT ![threads[t].image_processor] = {}]
    /\ threads' = [threads EXCEPT ![t].pc = "loop"]
    /\ UNCHANGED <<run_frame, buttons_enabled, connection_verified, verifying, wp_api,
                   api_use>>

\* the candidate lists search_images returns to the threads
AppPools == {1..2}

\* image_api.py line 543: select_unique_image at a boundary of the thread's run
ThreadSelect(t) ==
    /\ threads[t].pc = "loop"
    /\ Len(threads[t].selected) < MaxSelections
    /\ \E images \in AppPools :
          \E image \in available_images(images, processors[threads[t].image_processor]) :
            /\ processors' =
                  [processors EXCEPT ![threads[t].image_processor] =
                      registry_after(images, @, image)]
            /\ threads' = [threads EXCEPT ![t].selected =
                              Append(@, [images |-> images, id |-> image])]
    /\ UNCHANGED <<run_frame, buttons_enabled, connection_verified, verifying, wp_api,
                   api_use>>

\* lines 412-414: insert_images_in_content returns, its markup is assigned
\* to processed_content
ThreadAssembled(t) ==
    /\ threads[t].pc = "loop"
    /\ threads' = [threads EXCEPT ![t].pc = "post", ![t].processed_content = "assembled"]
    /\ UNCHANGED <<run_frame, processors, buttons_enabled, connection_verified, verifying,
                   wp_api, api_use>>

\* Variant of ThreadImageError that leaves processed_content with the markup
\* assembled before the exception.
ThreadImageError_partial(t) ==
    /\ threads[t].pc \in {"create", "assemble", "loop"}
    /\ threads' = [threads EXCEPT ![t].pc = "post", ![t].image_error = TRUE,
                                  ![t].processed_content = "partial"]
    /\ UNCHANGED <<run_frame, processors, buttons_enabled, connection_verified, verifying,
                   wp_api, api_use>>

\* lines 398-424: create_image_processor raises (pc "create"), int() of the
\* words-per-image field raises (pc "assemble") or insert_images_in_content
\* raises (pc "loop"); the except branch prints and goes on: the assignment
\* of line 412 did not happen
ThreadImageError(t) ==
    /\ threads[t].pc \in {"create", "assemble", "loop"}
    /\ threads' = [threads EXCEPT ![t].pc = "post", ![t].image_error = TRUE]
    /\ UNCHANGED <<run_frame, processors, buttons_enabled, connection_verified, verifying,
                   wp_api, api_use>>

\* lines 429-431: self.wp_api is read again, create_post is called with
\* processed_content, _update_post_result is queued
ThreadPost(t) ==
    /\ threads[t].pc = "post"
    /\ threads' = [threads EXCEPT ![t].pc = "result",
                                  ![t].posted = threads[t].processed_content]
    /\ api_use' = IF ~api_use.on THEN api_use
                  ELSE [api_use EXCEPT !.threads[t].post =
                          [made |-> TRUE, replaced |-> api_use.threads[t].replaced,
                           upload |-> api_use.threads[t].upload, tested |-> wp_api]]
    /\ UNCHANGED <<run_frame, processors, buttons_enabled, connection_verified, verifying,
                   wp_api>>

\* _update_post_result, run by the main loop
UpdatePostResult(t) ==
    /\ threads[t].pc = "result"
    /\ threads' = [threads EXCEPT ![t].pc = "done"]
    /\ buttons_enabled' = TRUE
    /\ UNCHANGED <<run_frame, processors, connection_verified, verifying, wp_api, api_use>>

\* the runs in which no step of a post-creation thread raises
NextApp ==
    \/ VerifyConnection
    \/ VerifyCreateClient
    \/ VerifyConnectionThread
    \/ UpdateConnectionResult
    \/ CreatePost
    \/ \E t \in 1..Len(threads) : ThreadClean(t)
    \/ \E t \in 1..Len(threads) : ThreadCreateProcessor(t)
    \/ \E t \in 1..Len(threads) : ThreadReset(t)
    \/ \E t \in 1..Len(threads) : ThreadSelect(t)
    \/ \E t \in 1..Len(threads) : ThreadAssembled(t)
    \/ \E t \in 1..Len(threads) : ThreadPost(t)
    \/ \E t \in 1..Len(threads) : UpdatePostResult(t)

SpecApp == InitApp /\ [][NextApp]_vars

----------------------------------------------------------------------------
(* Specification SpecPost: the window of main.py with the history of       *)
(* self.wp_api kept, and with post-creation threads whose steps may raise. *)
(* search_images finds no image for them.                                  *)

InitPost ==
    /\ AppRun
    /\ sections = <<>>
    /\ cleaned_html = <<>>
    /\ sanitized_content = <<>>
    /\ keywords = <<>>
    /\ i = 0
    /\ modified_content = <<>>
    /\ used_images = <<>>
    /\ final_content = <<>>
    /\ calls = <<>>
    /\ boundary_log = <<>>
    /\ max_keywords = MaxKeywords
    /\ WindowBuilt
    /\ api_use = [on |-> TRUE, threads |-> <<>>]

NextPost ==
    \/ VerifyConnection
    \/ VerifyCreateClient
    \/ VerifyConnectionThread
    \/ UpdateConnectionResult
    \/ CreatePost
    \/ \E t \in 1..Len(threads) : ThreadClean(t)
    \/ \E t \in 1..Len(threads) : ThreadCleanRaises(t)
    \/ \E t \in 1..Len(threads) : ThreadCreateProcessor(t)
    \/ \E t \in 1..Len(threads) : ThreadReset(t)
    \/ \E t \in 1..Len(threads) : ThreadAssembled(t)
    \/ \E t \in 1..Len(threads) : ThreadImageError(t)
    \/ \E t \in 1..Len(threads) : ThreadPost(t)
    \/ \E t \in 1..Len(threads) : UpdatePostResult(t)

SpecPost == InitPost /\ [][NextPost]_vars

----------------------------------------------------------------------------
(* Helpers for statements about text *)

RECURSIVE Flatten(_)
Flatten(ss) == IF ss = <<>> THEN <<>> ELSE Head(ss) \o Flatten(Tail(ss))

IsText(t) == t.k = "text"
TextOf(s) == SelectSeq(s, IsText)
WordSet(s) == {s[j].name : j \in {m \in 1..Len(s) : s[m].k = "text"}}

----------------------------------------------------------------------------
(* Claims about split_content_by_words, checked under SpecSplit *)

\* The paragraphs of the markup: the text pieces of re.split that hold a word
Paragraphs(c) ==
    LET ps == re_split(c)
    IN  {ps[n] : n \in {m \in 1..Len(ps) : ~IsMarker(ps[m]) /\ WordSet(ps[m]) # {}}}

\* C9: for words_per_section > 0 the words of the sections, read in order,
\* are the words of the markup: none dropped, duplicated or reordered.
C9_SectionCoverage ==
    (pc = "split_done" /\ words_per_section > 0)
        => TextOf(Flatten(sections)) = TextOf(content)

\* a split into several sections that trimmed whitespace off a section
C9_Witness ==
    /\ pc = "split_done"
    /\ words_per_section > 0
    /\ Len(sections) >= 2
    /\ Flatten(sections) # content

\* C10: every paragraph lies wholly inside exactly one section.
C10_NoSplitInsideParagraph ==
    pc = "split_done" =>
        \A p \in Paragraphs(content) :
            /\ Cardinality({n \in 1..Len(sections) :
                                WordSet(p) \subseteq WordSet(sections[n])}) = 1
            /\ \A n \in 1..Len(sections) :
                    \/ WordSet(p) \subseteq WordSet(sections[n])
                    \/ WordSet(p) \cap WordSet(sections[n]) = {}

\* a paragraph longer than the limit, in a markup split into several sections
C10_Witness ==
    /\ pc = "split_done"
    /\ words_per_section >= 1
    /\ Len(sections) >= 2
    /\ \E p \in Paragraphs(content) : CountWords(p) > words_per_section

----------------------------------------------------------------------------
(* Claims about the sanitizers, checked under SpecSan *)

\* C3: the output of either sanitizer holds no tag outside its allowed set.
C3_WhitelistClosure ==
    /\ pc \in {"san_cleaned", "san_done"} => TagsOf(cleaned_html) \subseteq HC_allowed_tags
    /\ pc = "san_done" => TagsOf(sanitized_content) \subseteq CS_allowed_tags

\* the attributes the default policy lists for a tag
PolicyAttrs(tag) ==
    CASE tag \in {"a"}               -> {"href", "title", "target"}
      [] tag \in {"img"}             -> {"src", "alt", "title"}
      [] tag \in {"blockquote", "q"} -> {"cite"}
      [] OTHER                       -> {}

OnlyPolicyAttrs(s) ==
    \A n \in 1..Len(s) :
        s[n].k = "open" => {a[1] : a \in s[n].attrs} \subseteq PolicyAttrs(s[n].name) \ DataAttrs

\* C4: every element of the output of either sanitizer carries only the
\* attributes the default policy lists for its tag.
C4_AttributeClosure ==
    /\ pc \in {"san_cleaned", "san_done"} => OnlyPolicyAttrs(cleaned_html)
    /\ pc = "san_done" => OnlyPolicyAttrs(sanitized_content)

----------------------------------------------------------------------------
(* Claims about insert_images_in_content, checked under Spec and SpecReuse *)

OnlyWhitespace(s) == \A n \in 1..Len(s) : s[n].k = "ws"
NonWs(s) == SelectSeq(s, LAMBDA t : t.k # "ws")

Returned == pc = "done"

\* the boundaries at which a selection was made, and those that got an image
Selecting == {n \in 1..Len(boundary_log) : boundary_log[n].images # {}}
EmbeddedAt == {n \in 1..Len(boundary_log) : boundary_log[n].embedded}

\* C1: within one run an id is embedded at two boundaries only when the
\* candidates it was then chosen among were fewer than the boundaries that
\* required an image.
C1_NoReuseBeforeExhaustion ==
    \A m \in EmbeddedAt, n \in EmbeddedAt :
        (m < n /\ boundary_log[m].id = boundary_log[n].id)
            => Cardinality(boundary_log[n].images) < Cardinality(Selecting)

\* C2: a run never ends with an exception of the provider or the uploader.
C2_NeverRaises == pc # "raised"

\* C5: empty or whitespace-only content is returned unchanged, with an empty
\* image list and without any call to the provider or the uploader.
C5_BlankUnchanged ==
    (Returned /\ OnlyWhitespace(content))
        => /\ final_content = content
           /\ used_images = <<>>
           /\ calls = <<>>

\* a whitespace-only content that was returned
C5_Witness ==
    /\ Returned
    /\ content # <<>>
    /\ OnlyWhitespace(content)
    /\ final_content = content

\* C6 as stated: with at most one section the returned markup is the
\* sanitized input exactly, no call is made and no image is listed.
C6_SingleSectionExact ==
    (Returned /\ ~OnlyWhitespace(content) /\ Len(sections) <= 1)
        => /\ final_content = sanitized_content
           /\ used_images = <<>>
           /\ calls = <<>>

\* C6 amended: with at most one section the returned markup is the sanitized
\* input with its whitespace normalised (three or more newlines of a blank
\* run made two, runs of blanks made one, trimmed); no call is made and no
\* image is listed.
C6_SingleSectionNormalised ==
    (Returned /\ ~OnlyWhitespace(content) /\ Len(sections) <= 1)
        => /\ final_content =
                Strip(CS_collapse_blanks(CS_collapse_blank_lines(sanitized_content)))
           /\ used_images = <<>>
           /\ calls = <<>>

\* a one-section run whose returned markup differs from the sanitized input
C6_Witness ==
    /\ Returned
    /\ ~OnlyWhitespace(content)
    /\ Len(sections) = 1
    /\ final_content # sanitized_content
    /\ NonWs(final_content) = NonWs(sanitized_content)

\* C7: with words_per_image zero or negative the document is one section:
\* no image is inserted and no provider call is made.
C7_NonPositiveOneSection ==
    words_per_section <= 0
        => /\ Len(sections) <= 1
           /\ used_images = <<>>
           /\ calls = <<>>

IsInsertedImg(t) ==
    /\ t.k = "open"
    /\ t.name = "img"
    /\ \E a \in t.attrs : a[1] = "src" /\ a[2][1] \in {"provider", "hosted"}

\* the sections in order, section n followed by the image paragraph around
\* the next of imgs when b[n]
RECURSIVE Interleaved(_, _, _, _)
Interleaved(secs, n, b, imgs) ==
    IF n > Len(secs) THEN <<>>
    ELSE IF n < Len(secs) /\ b[n] /\ imgs # <<>>
    THEN NonWs(secs[n]) \o <<POpen, Head(imgs), PClose>>
            \o Interleaved(secs, n + 1, b, Tail(imgs))
    ELSE NonWs(secs[n]) \o Interleaved(secs, n + 1, b, imgs)

\* C8: the returned markup is the sections in their order, with at most one
\* image paragraph after each section but the last and none after the last.
C8_ImagesBetweenSections ==
    (Returned /\ Len(sections) > 1) =>
        LET imgs == SelectSeq(final_content, IsInsertedImg)
        IN  /\ Len(imgs) <= Len(sections) - 1
            /\ \E b \in [1..(Len(sections) - 1) -> BOOLEAN] :
                  /\ Cardinality({n \in DOMAIN b : b[n]}) = Len(imgs)
                  /\ NonWs(final_content) = Interleaved(sections, 1, b, imgs)
            /\ final_content[Len(final_content)] =
                  sections[Len(sections)][Len(sections[Len(sections)])]

\* three sections returned with an image at one boundary and none at the other
C8_Witness ==
    /\ Returned
    /\ Len(sections) = 3
    /\ Len(used_images) = 1
    /\ Len(SelectSeq(final_content, IsInsertedImg)) = 1

----------------------------------------------------------------------------
(* Claims about the registry at the start of a run, checked under Spec     *)

\* the ids selected so far in this run
SelectedIds == {boundary_log[n].id : n \in 1..Len(boundary_log)} \ {0}

\* C11: in a run on content that is not blank the registry holds only ids
\* selected in this run, whatever it held when the run started; it is empty
\* before the first selection.
C11_RegistryFreshPerRun ==
    (pc \in {"loop", "finish", "done"} /\ ~IsBlank(content))
        => /\ used_image_ids \subseteq SelectedIds
           /\ (calls = <<>> => used_image_ids = {})

\* the first selection of a run took id 1, the id an earlier run may have
\* left in the registry, out of the large pool
C11_Witness ==
    /\ pc = "loop"
    /\ Len(boundary_log) = 1
    /\ boundary_log[1].images = BigPool
    /\ boundary_log[1].id = 1
    /\ used_image_ids = {1}

----------------------------------------------------------------------------
(* Claims about the URL embedded at a boundary, checked under Spec         *)

SrcOf(t) == (CHOOSE a \in t.attrs : a[1] = "src")[2]

\* the src of the image paragraphs added to a markup, in order
InsertedSrcs(s) ==
    LET imgs == SelectSeq(s, IsInsertedImg)
    IN  [n \in 1..Len(imgs) |-> SrcOf(imgs[n])]

\* the boundaries, in order, where a download URL was resolved
Resolved == SelectSeq(boundary_log, LAMBDA e : e.upload # "not_called")

\* C12: at every boundary where a download URL was resolved an image is
\* embedded; its src and its entry of the usage list are the platform's URL
\* when upload_media returned success with media data holding a URL, and
\* the provider's URL in every other case (no uploader, failure, success
\* without media data).
C12_UploadFallback ==
    pc \in {"loop", "finish", "done"} =>
        /\ Len(used_images) = Len(Resolved)
        /\ InsertedSrcs(modified_content) = used_images
        /\ \A n \in 1..Len(Resolved) :
              /\ Resolved[n].embedded
              /\ (Resolved[n].upload # "no_uploader") = wordpress_api
              /\ used_images[n] =
                    IF Resolved[n].upload = "hosted"
                    THEN HostedUrl(Resolved[n].id) ELSE ProviderUrl(Resolved[n].id)

\* a run with an uploader whose first upload failed and whose second
\* succeeded: both boundaries carry an image
C12_Witness ==
    /\ pc = "done"
    /\ wordpress_api
    /\ Len(boundary_log) = 2
    /\ boundary_log[1].upload = "failed"
    /\ boundary_log[2].upload = "hosted"
    /\ used_images = <<ProviderUrl(boundary_log[1].id), HostedUrl(boundary_log[2].id)>>

----------------------------------------------------------------------------
(* Claims about boundaries without image, checked under Spec               *)

\* the calls of search_images made so far
Searches == SelectSeq(calls, LAMBDA c : c = "search_images")

\* C13: whatever the earlier boundaries gave (no candidate, no URL, an
\* image), every boundary reached is queried exactly once, every section
\* reached is in modified_content, and the returned markup holds the text
\* of every section.
C13_SkipAndContinue ==
    (pc \in {"loop", "finish", "done"} /\ Len(sections) > 1) =>
        /\ Len(boundary_log) = Min({i, Len(sections) - 1})
        /\ Len(Searches) = Len(boundary_log)
        /\ TextOf(modified_content) = TextOf(Flatten(SubSeq(sections, 1, i)))
        /\ (pc = "done" =>
              /\ i = Len(sections)
              /\ TextOf(final_content) = TextOf(Flatten(sections)))

\* a returned run of three sections whose first boundary had no candidate
\* and whose second boundary got an image
C13_Witness ==
    /\ pc = "done"
    /\ Len(sections) = 3
    /\ Len(boundary_log) = 2
    /\ boundary_log[1].images = {}
    /\ ~boundary_log[1].embedded
    /\ boundary_log[2].embedded
    /\ Len(used_images) = 1

----------------------------------------------------------------------------
(* Claims about a failure inside a sanitizer, checked under SpecSan        *)

\* C14: no exception leaves a sanitizer, and the value a sanitizer returns
\* after a failure inside it holds no tag.
C14_FallbackIsPlainText ==
    /\ pc # "san_raised"
    /\ (pc = "san_cleaned_fallback" => TagsOf(cleaned_html) = {})
    /\ (pc = "san_done_fallback" => TagsOf(sanitized_content) = {})

----------------------------------------------------------------------------
(* Claims about a second pass of a sanitizer, checked under SpecSan        *)

\* C15: a sanitizer applied to its own result returns that result.
C15_Idempotent ==
    [][/\ (pc = "san_done" /\ pc' = "san_cleaned_twice") => cleaned_html' = cleaned_html
       /\ (pc = "san_cleaned_twice" /\ pc' = "san_done_twice")
             => sanitized_content' = sanitized_content]_vars

----------------------------------------------------------------------------
(* Claims about a provider with k candidates, checked under SpecCycle      *)

----------------------------------------------------------------------------
(* Claims about script elements, checked under SpecSan                     *)

\* the positions of a tree inside its script elements
InScript(doc) ==
    UNION {(n + 1)..(MatchClose(doc, n) - 1) :
              n \in {m \in 1..Len(doc) : doc[m].k = "open" /\ doc[m].name = "script"}}

\* the markup has a script element and all its words are inside script elements
OnlyScriptText(c) ==
    LET doc == Parse(c)
    IN  /\ \E n \in 1..Len(doc) : doc[n].k = "open" /\ doc[n].name = "script"
        /\ \A n \in 1..Len(doc) : doc[n].k = "text" => n \in InScript(doc)

NoScript(s) == "script" \notin TagsOf(s)

\* C17: what a sanitizer returns holds no script tag, and holds no text when
\* all the text of the markup was inside script elements.
C17_ScriptRemoved ==
    /\ pc \in {"san_cleaned", "san_done"} =>
          /\ NoScript(cleaned_html)
          /\ (OnlyScriptText(content) => TextOf(cleaned_html) = <<>>)
    /\ pc = "san_done" =>
          /\ NoScript(sanitized_content)
          /\ (OnlyScriptText(content) => TextOf(sanitized_content) = <<>>)

----------------------------------------------------------------------------
(* Claims about the usage list, checked under Spec                         *)

\* the boundaries, in order, where an image was embedded
EmbeddedEntries == SelectSeq(boundary_log, LAMBDA e : e.embedded)

\* C18: the usage list a call returns is the list of the src of the image
\* paragraphs in the markup it returns, in their order: one entry for each
\* boundary with an image, none for a boundary without.
C18_UsageListMatchesImages ==
    pc = "done" =>
        /\ used_images = InsertedSrcs(final_content)
        /\ Len(used_images) = Len(EmbeddedEntries)
        /\ \A n \in 1..Len(used_images) :
              used_images[n] \in {ProviderUrl(EmbeddedEntries[n].id),
                                  HostedUrl(EmbeddedEntries[n].id)}

\* a returned run with an uploaded image at the first boundary and no
\* download URL at the second
C18_Witness ==
    /\ pc = "done"
    /\ Len(boundary_log) = 2
    /\ boundary_log[1].upload = "hosted"
    /\ boundary_log[2].images # {}
    /\ ~boundary_log[2].embedded
    /\ used_images = <<HostedUrl(boundary_log[1].id)>>
    /\ InsertedSrcs(final_content) = used_images

----------------------------------------------------------------------------
(* Claims about extract_keywords_from_content, checked under SpecKw        *)

\* the words of the text, in lower case
TextWords == WordsOfText(content, <<>>)
Frequency(w) == Cardinality({n \in 1..Len(TextWords) : TextWords[n] = w})
FirstAt(w) == Min({n \in 1..Len(TextWords) : TextWords[n] = w})
\* a word of four letters or more, in lower case, made of letters only,
\* that is no stop word
Qualifies(w) ==
    /\ WordLen(w) >= 4
    /\ \A n \in 1..Len(w) : w[n] \notin NotLetters /\ Lower(w[n]) = w[n]
    /\ ~(Len(w) = 1 /\ w[1] \in stop_words)
Qualifying == {TextWords[n] : n \in {m \in 1..Len(TextWords) : Qualifies(TextWords[m])}}

\* C19: the keywords are pairwise distinct qualifying words of the text,
\* max_keywords of them or all when there are fewer (none when no word
\* qualifies), by descending frequency and, at equal frequency, in the order
\* of their first occurrence; no word left out is more frequent than a
\* keyword.
C19_KeywordsRanked ==
    pc = "kw_done" =>
        /\ Len(keywords) = Min({max_keywords, Cardinality(Qualifying)})
        /\ \A n \in 1..Len(keywords) : keywords[n] \in Qualifying
        /\ \A n, m \in 1..Len(keywords) :
              n < m =>
                /\ keywords[n] # keywords[m]
                /\ Frequency(keywords[n]) >= Frequency(keywords[m])
                /\ (Frequency(keywords[n]) = Frequency(keywords[m])
                      => FirstAt(keywords[n]) < FirstAt(keywords[m]))
        /\ \A w \in Qualifying :
              \A n \in 1..Len(keywords) :
                  (\A m \in 1..Len(keywords) : keywords[m] # w)
                      => Frequency(w) <= Frequency(keywords[n])

\* alpha comes first in the text, beta comes twice (once as Beta): beta is
\* the first keyword, alpha the second
C19_Witness ==
    /\ pc = "kw_done"
    /\ max_keywords = 2
    /\ content = <<Word("alpha"), SP, Word("Beta"), SP, Word("beta")>>
    /\ keywords = <<<<"beta">>, <<"alpha">>>>

----------------------------------------------------------------------------
(* Claims about the post-creation threads, checked under SpecApp           *)

\* the threads that are inside insert_images_in_content
Assembling == {t \in 1..Len(threads) : threads[t].pc = "loop"}

\* the registry that the selections sel, made one after the other from an
\* empty registry, leave
RECURSIVE RegistryOf(_)
RegistryOf(sel) ==
    IF sel = <<>> THEN {}
    ELSE LET e == sel[Len(sel)]
         IN  registry_after(e.images, RegistryOf(SubSeq(sel, 1, Len(sel) - 1)), e.id)

\* C20: no two post-creation threads have the same ImageProcessor, and the
\* registry of a thread that is running or has run insert_images_in_content
\* is the one its own selections leave, whatever the other threads did.
C20_OwnRegistry ==
    /\ \A t, u \in 1..Len(threads) :
          (t # u /\ threads[t].image_processor # 0)
              => threads[t].image_processor # threads[u].image_processor
    /\ \A t \in 1..Len(threads) :
          (threads[t].image_processor # 0 /\ threads[t].pc # "assemble")
              => processors[threads[t].image_processor] = RegistryOf(threads[t].selected)

\* two threads are inside insert_images_in_content at once and each has
\* selected an image: their registries differ
C20_Witness ==
    /\ Assembling = {1, 2}
    /\ Len(threads[1].selected) = 1
    /\ Len(threads[2].selected) = 1
    /\ processors[threads[1].image_processor] # processors[threads[2].image_processor]

----------------------------------------------------------------------------
(* Claims about consecutive boundaries, checked under SpecCycle            *)

\* C21: when every search returned two candidates or more, the images
\* embedded at two consecutive boundaries have different ids, also when the
\* registry was cleared between the two selections.
C21_NoImmediateReuse ==
    (\A n \in 1..Len(boundary_log) : Cardinality(boundary_log[n].images) >= 2)
        => \A n \in 1..(Len(boundary_log) - 1) :
              (boundary_log[n].embedded /\ boundary_log[n + 1].embedded)
                  => boundary_log[n].id # boundary_log[n + 1].id

----------------------------------------------------------------------------
(* Claims about the rule of the splitter, checked under SpecParas          *)

\* the pieces of re.split that are paragraphs (no separator, not blank)
ParagraphsOf(c) == SelectSeq(re_split(c), LAMBDA p : ~IsMarker(p))

\* the words of the paragraphs of a markup, as the splitter counts them
RECURSIVE SumWords(_)
SumWords(ps) == IF ps = <<>> THEN 0 ELSE CountWords(Head(ps)) + SumWords(Tail(ps))
ParagraphWords(c) == SumWords(ParagraphsOf(c))

\* the section holds a paragraph
HoldsParagraph(s) == \E n \in 1..Len(s) : s[n].k = "text"

\* the rule: a paragraph is appended when the current section holds no
\* paragraph or the word count with it does not exceed the limit; otherwise
\* the section is closed and a new one starts with the paragraph
RuleStep(st, paragraph, wps) ==
    IF IsMarker(paragraph)
    THEN [st EXCEPT !.current_section = @ \o paragraph]
    ELSE LET paragraph_words == CountWords(paragraph)
         IN  IF \/ ~HoldsParagraph(st.current_section)
                \/ st.current_word_count + paragraph_words <= wps
             THEN [sections |-> st.sections,
                   current_section |-> st.current_section \o paragraph,
                   current_word_count |-> st.current_word_count + paragraph_words]
             ELSE [sections |-> Append(st.sections, Strip(st.current_section)),
                   current_section |-> paragraph,
                   current_word_count |-> paragraph_words]

RECURSIVE RuleLoop(_, _, _, _)
RuleLoop(paragraphs, n, st, wps) ==
    IF n > Len(paragraphs) THEN st
    ELSE RuleLoop(paragraphs, n + 1, RuleStep(st, paragraphs[n], wps), wps)

RuleSections(c, wps) ==
    LET st == RuleLoop(re_split(c), 1, SplitState0, wps)
    IN  IF Strip(st.current_section) # <<>>
        THEN Append(st.sections, Strip(st.current_section))
        ELSE st.sections

\* C22: the sections are those the rule gives; every section that holds
\* more than one paragraph has at most words_per_section words; n paragraphs
\* of exactly words_per_section words each give n sections.
C22_SplitRule ==
    pc = "split_done" =>
        /\ sections = RuleSections(content, words_per_section)
        /\ \A n \in 1..Len(sections) :
              Len(ParagraphsOf(sections[n])) > 1
                  => ParagraphWords(sections[n]) <= words_per_section
        /\ (/\ words_per_section >= 1
            /\ \A n \in 1..Len(ParagraphsOf(content)) :
                  CountWords(ParagraphsOf(content)[n]) = words_per_section)
              => Len(sections) = Len(ParagraphsOf(content))

----------------------------------------------------------------------------
(* Claims about select_unique_image, checked under SpecSelect              *)

\* the last call of select_unique_image returned an image
HasSelected == boundary_log # <<>> /\ boundary_log[1].images # {}

\* C23: when a candidate is not in the registry, the image returned is a
\* candidate that was not in the registry, and the registry after the call
\* is the registry before it plus the id returned (nothing is cleared).
C23_SelectsUnused ==
    HasSelected =>
        LET e == boundary_log[1]
        IN  e.images \ e.used_before # {}
                => /\ e.id \in e.images \ e.used_before
                   /\ used_image_ids = e.used_before \cup {e.id}

\* a selection among candidates of which some were in the registry and
\* some were not, with an id that is no candidate in the registry as well
C23_Witness ==
    /\ HasSelected
    /\ boundary_log[1].images \cap boundary_log[1].used_before # {}
    /\ boundary_log[1].images \ boundary_log[1].used_before # {}
    /\ boundary_log[1].used_before \ boundary_log[1].images # {}
    /\ Cardinality(used_image_ids) = Cardinality(boundary_log[1].used_before) + 1

\* C24: when every candidate is in the registry, the whole registry is
\* cleared, the image returned is one of the candidates (never None), and
\* the registry after the call holds the id returned and nothing else.
C24_ResetWhenExhausted ==
    HasSelected =>
        LET e == boundary_log[1]
        IN  e.images \subseteq e.used_before
                => /\ e.id \in e.images
                   /\ used_image_ids = {e.id}

\* a selection among two candidates or more, all in a registry that held
\* another id too
C24_Witness ==
    /\ HasSelected
    /\ Cardinality(boundary_log[1].images) >= 2
    /\ boundary_log[1].images \subseteq boundary_log[1].used_before
    /\ boundary_log[1].used_before \ boundary_log[1].images # {}
    /\ used_image_ids = {boundary_log[1].id}

----------------------------------------------------------------------------
(* Claims about the keywords of the queries, checked under SpecKeys        *)

SameElements(s, t) ==
    /\ Len(s) = Len(t)
    /\ {s[n] : n \in 1..Len(s)} = {t[n] : n \in 1..Len(t)}

\* C25: the keyword list is never empty: it is the extracted keywords in
\* some order, or the six fallback keywords in some order when none was
\* extracted; the query of boundary n (counted from 0) uses
\* keywords[n mod len(keywords)], whether the boundaries before it got an
\* image or not.
C25_KeywordRotation ==
    pc \in {"loop", "finish", "done"} =>
        LET extracted == extract_keywords_from_content(sanitized_content, MaxKeywords)
        IN  /\ keywords # <<>>
            /\ SameElements(keywords,
                            IF extracted = <<>> THEN FallbackKeywords ELSE extracted)
            /\ Len(boundary_log) = Min({i, Len(sections) - 1})
            /\ \A n \in 1..Len(boundary_log) :
                  boundary_log[n].keyword = keywords[((n - 1) % Len(keywords)) + 1]

\* a run with two keywords and three boundaries: the first got no
\* candidate, the second no URL, and the third an image, queried with the
\* first keyword again
C25_Witness ==
    /\ pc = "done"
    /\ Len(keywords) = 2
    /\ keywords[1] # keywords[2]
    /\ Len(boundary_log) = 3
    /\ boundary_log[1].images = {}
    /\ boundary_log[2].images # {} /\ ~boundary_log[2].embedded
    /\ boundary_log[2].keyword = keywords[2]
    /\ boundary_log[3].embedded
    /\ boundary_log[3].keyword = keywords[1]

----------------------------------------------------------------------------
(* Claims about what the registry records, checked under Spec              *)

\* the ids of the images embedded so far in this run
EmbeddedIds == {boundary_log[n].id : n \in {m \in 1..Len(boundary_log) : boundary_log[m].embedded}}

\* C27: during a run the registry holds only ids of images embedded in the
\* document in this run; the id selected at a boundary that was skipped
\* because no download URL was resolved is not in it.
C27_RegistryOnlyEmbedded ==
    (pc \in {"loop", "finish", "done"} /\ ~IsBlank(content))
        => used_image_ids \subseteq EmbeddedIds

----------------------------------------------------------------------------
(* Claims about the <p> markers of the sections, checked under SpecParas   *)

\* the <p> and </p> among the first n tokens of s
OpenedPs(s, n) == Cardinality({m \in 1..n : s[m] = POpen})
ClosedPs(s, n) == Cardinality({m \in 1..n : s[m] = PClose})

\* every </p> closes a <p> before it and no <p> is left open
BalancedPs(s) ==
    /\ \A n \in 1..Len(s) : ClosedPs(s, n) <= OpenedPs(s, n)
    /\ ClosedPs(s, Len(s)) = OpenedPs(s, Len(s))

\* C28: the sections of a markup whose <p> and </p> are balanced have
\* balanced <p> and </p> each: no section ends inside an open <p> element,
\* where the image paragraph would be added.
C28_BalancedSections ==
    (pc = "split_done" /\ BalancedPs(content))
        => \A n \in 1..Len(sections) : BalancedPs(sections[n])

----------------------------------------------------------------------------
(* The post-creation thread *)

\* C26: when image processing fails in a post-creation thread, the thread
\* goes on to create_post and does not skip it, and the content it submits
\* is the markup clean_html returned, with nothing of a partly assembled
\* document in it.
C26_ImageErrorPostsCleaned ==
    \A t \in 1..Len(threads) :
        threads[t].image_error =>
            /\ threads[t].processed_content = "cleaned"
            /\ threads[t].pc \in {"post", "result", "done"}
            /\ threads[t].pc \in {"result", "done"} => threads[t].posted = "cleaned"

\* a thread whose image processing failed has called create_post
C26_Witness ==
    \E t \in 1..Len(threads) :
        /\ threads[t].image_error
        /\ threads[t].image_processor # 0
        /\ threads[t].posted = "cleaned"

\* the post-creation threads that were started and whose _update_post_result
\* has not run
InFlight == {t \in 1..Len(threads) : threads[t].pc # "done"}

\* C29: at most one post-creation thread is in flight, and while one is in
\* flight the publish and draft buttons are disabled.
C29_OnePostInFlight ==
    /\ Cardinality(InFlight) <= 1
    /\ InFlight # {} => ~buttons_enabled

\* C30: the object a post-creation thread calls create_post on is the one
\* self.wp_api held when the thread started, its connection is verified, and
\* the object given to the ImageProcessor for uploads is the same one.
C30_SameVerifiedClient ==
    \A t \in 1..Len(api_use.threads) :
        LET post == api_use.threads[t].post
        IN  post.made =>
                /\ ~post.replaced
                /\ post.upload # "replaced"
                /\ post.tested = "ok"

====
